---- MODULE Spec2Model ----
(***************************************************************************)
(* The control center of the line-following vehicle: the control state     *)
(* machine, the drive-instruction / road-segment plan and the completion   *)
(* buffer of src/unnamed/part_000 (ControlCenter).                         *)
(*                                                                         *)
(* One action per public operation: Tick is operator(), plus               *)
(* AddDriveInstruction, SetDriveMissions and GetFinishedInstructionId.     *)
(* The distance filters, the stop-line detector, path_blocked, is_expected *)
(* and the speed constants are declared in headers that are not part of    *)
(* the sources at hand; they are modelled from the specification.  The     *)
(* route planner is external: its answer to solve() is a choice among      *)
(* Routes.                                                                 *)
(***************************************************************************)
EXTENDS Integers, Sequences, FiniteSets, TLC

VARIABLES
    drive_instructions,          \* list<drive_instruction_t>: [number, id]
    road_segments,               \* list<string>
    finished_id_buffer,          \* list<string>
    state,                       \* state::ControlState
    stop_reason,                 \* state::ControlState, read while stopping
    finish_when_stopped,         \* bool
    obstacle_distance_filter,    \* DistanceFilter window
    stop_distance_filter,        \* DistanceFilter window
    stop_line_detector,          \* StopLineDetector: [consecutive, high_count]
    consecutive_0_status_codes,  \* unsigned
    status_code_threshold,       \* unsigned, set by the constructor
    last_angle,                  \* int
    clean_run,                   \* history: length of the current run of ticks with status code 0
    block_stop,                  \* history: progress of a stop for an obstacle
    hist,                        \* history: deferred completion, line finishes, input runs
    call                         \* history: the last operation, its inputs and what it returned

vars == << drive_instructions, road_segments, finished_id_buffer, state,
           stop_reason, finish_when_stopped, obstacle_distance_filter,
           stop_distance_filter, stop_line_detector,
           consecutive_0_status_codes, status_code_threshold, last_angle,
           clean_run, block_stop, hist, call >>

----------------------------------------------------------------------------
(* Bounds of the model *)

\* longest instruction queue the mission API builds, and most completion
\* ids left unacknowledged before ticks wait for a poll: in Spec
MaxPlan == 2
MaxBuffer == 1
\* the same two bounds in SpecPlan
MaxPlanIds == 4
MaxBufferIds == 2
\* longest run of clean status codes explored
MaxClean == 3
\* largest status_code_threshold the constructor is given
MaxThreshold == 2

----------------------------------------------------------------------------
(* Program constants and configuration *)

\* constructor arguments (part_000:12-20)
StatusCodeThreshold == 3
ObstacleFilterLen == 1
StopFilterLen == 1
ConsecutiveParam == 1
HighCountParam == 1
\* seeds the constructor gives the two filters (part_000:17-18)
ObstacleFilterSeed == 100
StopFilterSeed == 0
\* replacement of the "no reading" sentinels (part_000:52-56)
NoReadingDistance == 1000

\* configuration constants of the missing header, values from the specification
DEFAULT_SPEED == 1000
INTERSECTION_SPEED == 500
BlockedDistance == 50
StopLineDistance == 20
MaxExpectedAngle == 45

Instructions == {"forward", "left", "right", "stop"}

drive_instruction_t(number, id) == [number |-> number, id |-> id]

----------------------------------------------------------------------------
(* Arithmetic of C++ int *)

\* int division truncates toward zero
TruncDiv(a, b) ==
    IF a >= 0 THEN a \div b ELSE -((-a) \div b)

RECURSIVE SumSeq(_)
SumSeq(s) == IF s = << >> THEN 0 ELSE Head(s) + SumSeq(Tail(s))

----------------------------------------------------------------------------
(* DistanceFilter: window of the last N observations *)

NewDistanceFilter(n, v0) == [i \in 1..n |-> v0]

\* a window that never evicts its oldest sample
FilterPush_keeping_oldest(window, x) ==
    IF Len(window) = 1 THEN << x >>
    ELSE << Head(window) >> \o Tail(Tail(window)) \o << x >>

\* the window after filter(x): the oldest sample is evicted
FilterPush(window, x) == Append(Tail(window), x)

\* the truncated mean of a window
FilterMean(window) == TruncDiv(SumSeq(window), Len(window))

\* the value filter(x) returns: the truncated mean of the new window
FilterValue(window, x) == FilterMean(FilterPush(window, x))

----------------------------------------------------------------------------
(* StopLineDetector *)

near_line(stop_distance) == stop_distance < StopLineDistance

NewStopLineDetector == [consecutive |-> 0, high_count |-> 0]

\* the detector after at_line(stop_distance)
AtLineNext(det, stop_distance) ==
    IF near_line(stop_distance)
    THEN LET run == IF det.consecutive < ConsecutiveParam
                    THEN det.consecutive + 1 ELSE ConsecutiveParam
         IN [consecutive |-> run,
             high_count  |-> IF run >= ConsecutiveParam THEN HighCountParam
                             ELSE det.high_count]
    ELSE IF det.consecutive >= ConsecutiveParam /\ det.high_count > 0
         THEN [det EXCEPT !.high_count = @ - 1]
         ELSE NewStopLineDetector

\* what at_line(stop_distance) returns
AtLineFires(det, stop_distance) ==
    IF near_line(stop_distance)
    THEN det.consecutive + 1 >= ConsecutiveParam
    ELSE det.consecutive >= ConsecutiveParam /\ det.high_count > 0

path_blocked(obstacle_distance) == obstacle_distance < BlockedDistance

is_expected(angle) == angle >= -MaxExpectedAngle /\ angle <= MaxExpectedAngle

----------------------------------------------------------------------------
(* The part of the object that update_state and the mission API work on *)

Machine ==
    [drive_instructions  |-> drive_instructions,
     road_segments       |-> road_segments,
     finished_id_buffer  |-> finished_id_buffer,
     state               |-> state,
     stop_reason         |-> stop_reason,
     finish_when_stopped |-> finish_when_stopped,
     stop_line_detector  |-> stop_line_detector]

\* finish_instruction without the pop of the road segment
finish_instruction_keeping_segment(m) ==
    [m EXCEPT !.drive_instructions = Tail(@),
              !.finished_id_buffer = Append(@, Head(m.drive_instructions).id)]

\* ControlCenter::finish_instruction
finish_instruction(m) ==
    [m EXCEPT !.drive_instructions = Tail(@),
              !.road_segments      = IF @ = << >> THEN @ ELSE Tail(@),
              !.finished_id_buffer = Append(@, Head(m.drive_instructions).id)]

\* set_new_state entering stop_line for a stop instruction at any speed
set_new_state_ignoring_speed(m, speed) ==
    LET instr == IF m.drive_instructions = << >> THEN "stop"
                 ELSE Head(m.drive_instructions).number
    IN CASE instr = "forward" -> [m EXCEPT !.state = "normal"]
         [] instr \in {"left", "right"} -> [m EXCEPT !.state = "intersection"]
         [] OTHER -> [m EXCEPT !.state = "stop_line"]

\* ControlCenter::set_new_state
set_new_state(m, speed) ==
    LET instr == IF m.drive_instructions = << >> THEN "stop"
                 ELSE Head(m.drive_instructions).number
    IN CASE instr = "forward" -> [m EXCEPT !.state = "normal"]
         [] instr \in {"left", "right"} -> [m EXCEPT !.state = "intersection"]
         [] instr = "stop" ->
                IF speed > 0
                THEN [m EXCEPT !.stop_reason = "stop_line", !.state = "stopping"]
                ELSE [m EXCEPT !.state = "stop_line"]
         [] OTHER -> [m EXCEPT !.state = "stop_line"]

\* update_running asking the stop-line detector before the obstacle distance
update_running_line_first(m, obstacle_distance, stop_distance, speed) ==
    LET det == AtLineNext(m.stop_line_detector, stop_distance)
        md  == [m EXCEPT !.stop_line_detector = det]
    IN IF AtLineFires(m.stop_line_detector, stop_distance)
       THEN IF Len(m.drive_instructions) > 1
            THEN set_new_state(finish_instruction(md), speed)
            ELSE [md EXCEPT !.finish_when_stopped = TRUE,
                            !.state = "stopping",
                            !.stop_reason = "stop_line"]
       ELSE IF path_blocked(obstacle_distance)
            THEN [md EXCEPT !.state = "stopping", !.stop_reason = "blocked"]
            ELSE md

\* update_state, case normal / intersection
update_running(m, obstacle_distance, stop_distance, speed) ==
    IF path_blocked(obstacle_distance)
    THEN [m EXCEPT !.state = "stopping", !.stop_reason = "blocked"]
    ELSE LET det == AtLineNext(m.stop_line_detector, stop_distance)
             md  == [m EXCEPT !.stop_line_detector = det]
         IN IF AtLineFires(m.stop_line_detector, stop_distance)
            THEN IF Len(m.drive_instructions) > 1
                 THEN set_new_state(finish_instruction(md), speed)
                 ELSE [md EXCEPT !.finish_when_stopped = TRUE,
                                 !.state = "stopping",
                                 !.stop_reason = "stop_line"]
            ELSE md

\* update_state, case stop_line, without the look at the obstacle distance
update_stop_line_unchecked(m, obstacle_distance, stop_distance, speed) ==
    LET mf == IF Head(m.drive_instructions).number = "stop"
              THEN finish_instruction(m) ELSE m
        md == [mf EXCEPT !.stop_line_detector =
                            AtLineNext(m.stop_line_detector, stop_distance)]
    IN set_new_state(md, speed)

\* update_state, case stop_line
update_stop_line(m, obstacle_distance, stop_distance, speed) ==
    IF path_blocked(obstacle_distance)
    THEN [m EXCEPT !.state = "blocked"]
    ELSE LET mf == IF Head(m.drive_instructions).number = "stop"
                   THEN finish_instruction(m) ELSE m
             md == [mf EXCEPT !.stop_line_detector =
                                 AtLineNext(m.stop_line_detector, stop_distance)]
         IN set_new_state(md, speed)

\* update_state, case blocked
update_blocked(m, obstacle_distance, speed) ==
    IF ~path_blocked(obstacle_distance)
    THEN set_new_state(m, speed)
    ELSE m

\* update_state, case stopping, finishing the deferred instruction before
\* the vehicle stands
update_stopping_at_any_speed(m, speed) ==
    LET ms == [m EXCEPT !.state = m.stop_reason]
    IN IF m.finish_when_stopped
       THEN [finish_instruction(ms) EXCEPT !.finish_when_stopped = FALSE]
       ELSE IF speed = 0 THEN ms ELSE m

\* update_state, case stopping
update_stopping(m, speed) ==
    IF speed = 0
    THEN LET ms == [m EXCEPT !.state = m.stop_reason]
         IN IF m.finish_when_stopped
            THEN [finish_instruction(ms) EXCEPT !.finish_when_stopped = FALSE]
            ELSE ms
    ELSE m

\* update_state, no instruction
update_no_instruction(m, speed) ==
    IF speed > 0
    THEN [m EXCEPT !.state = "stopping", !.stop_reason = "stop_line"]
    ELSE [m EXCEPT !.state = "stop_line"]

\* ControlCenter::update_state
update_state(m, obstacle_distance, stop_distance, speed) ==
    IF m.drive_instructions = << >>
    THEN update_no_instruction(m, speed)
    ELSE CASE m.state \in {"normal", "intersection"} ->
                  update_running(m, obstacle_distance, stop_distance, speed)
           [] m.state = "stop_line" ->
                  update_stop_line(m, obstacle_distance, stop_distance, speed)
           [] m.state = "blocked" ->
                  update_blocked(m, obstacle_distance, speed)
           [] m.state = "stopping" ->
                  update_stopping(m, speed)
           [] OTHER -> m

\* calculate_speed keeping the intersection speed while stopping
calculate_speed_while_stopping(s) ==
    CASE s = "normal" -> DEFAULT_SPEED
      [] s \in {"intersection", "stopping"} -> INTERSECTION_SPEED
      [] OTHER -> 0

\* ControlCenter::calculate_speed
calculate_speed(s) ==
    CASE s = "normal" -> DEFAULT_SPEED
      [] s = "intersection" -> INTERSECTION_SPEED
      [] s \in {"stop_line", "stopping", "blocked"} -> 0
      [] OTHER -> 0

\* the counter after choose_regulation_mode; its width is never reached:
\* Tick explores runs of at most MaxClean clean status codes
next_status_count(count, status_code) ==
    IF status_code = 0 THEN count + 1 ELSE 0

\* ControlCenter::choose_regulation_mode, the mode written to control_data
choose_regulation_mode(count, threshold, status_code) ==
    IF next_status_count(count, status_code) >= threshold
    THEN "auto_nominal" ELSE "auto_critical"

\* ControlCenter::calculate_lateral_position, instr being the number read
\* from drive_instructions.front()
calculate_lateral_position(instr, lateral_left, lateral_right) ==
    CASE instr = "forward" -> TruncDiv(lateral_left + lateral_right, 2)
      [] instr = "left" -> lateral_left
      [] instr = "right" -> lateral_right
      [] OTHER -> 0

\* ControlCenter::calculate_angle, instr being the number read from
\* drive_instructions.front()
calculate_angle(instr, angle_left, angle_right) ==
    CASE instr = "forward" ->
            IF is_expected(angle_left) /\ is_expected(angle_right)
            THEN TruncDiv(angle_left + angle_right, 2)
            ELSE IF is_expected(angle_left) THEN angle_left
            ELSE IF is_expected(angle_right) THEN angle_right
            ELSE TruncDiv(angle_left + angle_right, 2)
      [] instr = "left" ->
            IF is_expected(angle_left) THEN angle_left
            ELSE IF is_expected(angle_right) THEN angle_right
            ELSE angle_left
      [] instr = "right" ->
            IF is_expected(angle_right) THEN angle_right
            ELSE IF is_expected(angle_left) THEN angle_left
            ELSE angle_right
      [] OTHER -> 0

\* what reading drive_instructions.front().number can yield: the number of
\* the front instruction, or, on an empty list, whatever the memory holds
FrontNumbers(instrs) ==
    IF instrs = << >> THEN Instructions \cup {"unknown"}
    ELSE {Head(instrs).number}

----------------------------------------------------------------------------
(* Mission API *)

\* add_drive_instruction(instruction, id)
add_drive_instruction(m, number, id) ==
    [m EXCEPT !.drive_instructions = Append(@, drive_instruction_t(number, id))]

\* the "save path" loop without the step of the segment iterator
save_path_first_segment(m, route) ==
    [m EXCEPT !.drive_instructions =
                  @ \o [i \in 1..Len(route.drive_mission) |->
                           drive_instruction_t(route.drive_mission[i],
                                               route.road_segments[1])],
              !.road_segments = @ \o route.road_segments]

\* the "save path" loop of set_drive_missions and the splice after it
save_path(m, route) ==
    [m EXCEPT !.drive_instructions =
                  @ \o [i \in 1..Len(route.drive_mission) |->
                           drive_instruction_t(route.drive_mission[i],
                                               route.road_segments[i])],
              !.road_segments = @ \o route.road_segments]

\* path_finder.solve fails on the first leg the planner has no answer for:
\* the failure leaves set_drive_missions at once, as an exception
solve_fails(target_list, routes) == Len(routes) < Len(target_list) - 1

\* the for loop of set_drive_missions; routes[i] is the planner's answer
\* for the i-th leg, and the loop is left where solve fails
RECURSIVE splice_legs(_, _, _, _)
splice_legs(m, start_node, target_list, routes) ==
    IF target_list = << >> THEN m
    ELSE LET ms == [add_drive_instruction(m, "stop", start_node)
                       EXCEPT !.road_segments = Append(@, start_node)]
         IN IF routes = << >> THEN ms
            ELSE splice_legs(save_path(ms, Head(routes)), Head(target_list),
                             Tail(target_list), Tail(routes))

\* set_drive_missions without the reset of the two queues
set_drive_missions_appending(m, target_list, routes) ==
    splice_legs(m, Head(target_list), Tail(target_list), routes)

\* set_drive_missions reporting the instructions it discards as finished
set_drive_missions_notifying(m, target_list, routes) ==
    splice_legs([m EXCEPT !.drive_instructions = << >>,
                          !.road_segments = << >>,
                          !.finished_id_buffer =
                              @ \o [i \in 1..Len(m.drive_instructions) |->
                                       m.drive_instructions[i].id]],
                Head(target_list), Tail(target_list), routes)

\* set_drive_missions pushing the segment of a leg's stop only once solve
\* has answered for the leg
set_drive_missions_segment_after_solve(m, target_list, routes) ==
    LET left == splice_legs([m EXCEPT !.drive_instructions = << >>,
                                      !.road_segments = << >>],
                            Head(target_list), Tail(target_list), routes)
    IN IF solve_fails(target_list, routes)
       THEN [left EXCEPT !.road_segments = SubSeq(@, 1, Len(@) - 1)]
       ELSE left

\* ControlCenter::set_drive_missions
set_drive_missions(m, target_list, routes) ==
    splice_legs([m EXCEPT !.drive_instructions = << >>,
                          !.road_segments = << >>],
                Head(target_list), Tail(target_list), routes)

\* get_finished_instruction_id returning the newest id
finished_id_newest(buffer) ==
    IF buffer = << >> THEN "" ELSE buffer[Len(buffer)]

\* ControlCenter::get_finished_instruction_id, the id returned
finished_id(buffer) == IF buffer = << >> THEN "" ELSE Head(buffer)

\* ControlCenter::get_finished_instruction_id, the buffer left
finished_rest(buffer) == IF buffer = << >> THEN buffer ELSE Tail(buffer)

\* ControlCenter::get_current_road_segment
get_current_road_segment == 
    IF road_segments = << >> THEN "end" ELSE Head(road_segments)

----------------------------------------------------------------------------
(* History of the last operation *)

NoControl == [angle |-> 0, lateral_position |-> 0, speed_ref |-> 0,
              regulation_mode |-> "none"]

\* op: the operation; speed: the speed a tick was given; returned: whether
\* the operation returned to its caller; front_of_empty: whether it read
\* front() of an empty instruction list; control: the control_t a tick
\* returned; id: the string get_finished_instruction_id returned;
\* target_list, routes: what set_drive_missions was given and what the
\* planner answered
\* obstacle_filtered, stop_filtered: what the two filters returned in a
\* tick; failed: whether set_drive_missions ended in a planner failure
NoCall == [op |-> "none", speed |-> 0, returned |-> TRUE,
           front_of_empty |-> FALSE, control |-> NoControl, id |-> "",
           target_list |-> << >>, routes |-> << >>,
           obstacle_filtered |-> 0, stop_filtered |-> 0, failed |-> FALSE]

\* a call that did not return ended the process
Alive == call.returned

\* block_stop after a tick.  "pending": a tick that began in normal or
\* intersection with a non-empty plan found the path blocked, and every tick
\* since had speed # 0 and a non-empty plan; "lapsed": the same, but some
\* tick since ran on an empty plan; "no": otherwise
next_block_stop(blocked, speed) ==
    IF state \in {"normal", "intersection"} /\ drive_instructions # << >>
       /\ blocked
    THEN "pending"
    ELSE IF block_stop = "no" \/ speed = 0 THEN "no"
    ELSE IF drive_instructions = << >> THEN "lapsed"
    ELSE block_stop

NoInstruction == drive_instruction_t("none", "")

\* armed_for: the front instruction when finish_when_stopped was last armed
\* and not yet consumed; untouched: no mission API call and no tick with
\* speed = 0 since then; deferred: the last operation was a tick that
\* consumed the flag while it was untouched; line_finish: the last
\* operation was a tick that
\* began in normal or intersection and finished a driving instruction;
\* obstacle_run, stop_run: the last value given to each filter and for how
\* many ticks in a row, counted up to the window length. The history is
\* kept only where recording is set, which Init decides once
NoHist == [recording |-> FALSE,
           armed_for |-> NoInstruction, untouched |-> FALSE,
           deferred |-> FALSE, line_finish |-> FALSE,
           obstacle_run |-> [x |-> 0, n |-> 0],
           stop_run |-> [x |-> 0, n |-> 0]]

next_run(run, x, window) ==
    IF run.n > 0 /\ run.x = x
    THEN [run EXCEPT !.n = IF @ < Len(window) THEN @ + 1 ELSE @]
    ELSE [x |-> x, n |-> 1]

\* hist after a tick that was given these (normalised) distances and speed;
\* blocked and fires are what path_blocked and at_line answer on the
\* filtered values, next_instructions is the queue the tick leaves
tick_hist(obstacle_distance, stop_distance, speed, blocked, fires, next_instructions) ==
    LET planned == drive_instructions # << >>
        arming == /\ state \in {"normal", "intersection"} /\ planned
                  /\ ~blocked /\ fires /\ Len(drive_instructions) = 1
        consuming == /\ state = "stopping" /\ planned
                     /\ finish_when_stopped /\ speed = 0
    IN IF ~hist.recording THEN hist ELSE
       [recording |-> TRUE,
        armed_for |->
            IF arming THEN Head(drive_instructions)
            ELSE IF consuming THEN NoInstruction ELSE hist.armed_for,
        untouched |->
            IF arming THEN TRUE
            ELSE IF speed = 0 THEN FALSE ELSE hist.untouched,
        deferred |-> consuming /\ hist.untouched,
        line_finish |->
            /\ state \in {"normal", "intersection"} /\ planned
            /\ Head(drive_instructions).number # "stop"
            /\ next_instructions # drive_instructions,
        obstacle_run |->
            next_run(hist.obstacle_run, obstacle_distance,
                     obstacle_distance_filter),
        stop_run |->
            next_run(hist.stop_run, stop_distance, stop_distance_filter)]

\* hist after a mission API call
mission_hist ==
    [hist EXCEPT !.untouched = FALSE, !.deferred = FALSE,
                 !.line_finish = FALSE]

\* hist after get_finished_instruction_id
poll_hist == [hist EXCEPT !.deferred = FALSE, !.line_finish = FALSE]

----------------------------------------------------------------------------
(* Operations *)

\* ControlCenter::operator()
Tick(obstacle_in, stop_in, speed, angle_left, angle_right, lateral_left, lateral_right, status_code) ==
    /\ Alive
    /\ LET stop_distance == IF stop_in = -1 THEN NoReadingDistance ELSE stop_in
           obstacle_distance == IF obstacle_in = 0 THEN NoReadingDistance
                                ELSE obstacle_in
           obstacle_filtered == FilterValue(obstacle_distance_filter,
                                            obstacle_distance)
           stop_filtered == FilterValue(stop_distance_filter, stop_distance)
           mode == choose_regulation_mode(consecutive_0_status_codes,
                                          status_code_threshold, status_code)
       IN \E m \in {update_state(Machine, obstacle_filtered, stop_filtered,
                                 speed)} :
          /\ obstacle_distance_filter' =
                 FilterPush(obstacle_distance_filter, obstacle_distance)
          /\ stop_distance_filter' =
                 FilterPush(stop_distance_filter, stop_distance)
          /\ drive_instructions' = m.drive_instructions
          /\ road_segments' = m.road_segments
          /\ finished_id_buffer' = m.finished_id_buffer
          /\ state' = m.state
          /\ stop_reason' = m.stop_reason
          /\ finish_when_stopped' = m.finish_when_stopped
          /\ stop_line_detector' = m.stop_line_detector
          /\ consecutive_0_status_codes' =
                 next_status_count(consecutive_0_status_codes, status_code)
          /\ clean_run' = IF status_code = 0 THEN clean_run + 1 ELSE 0
          /\ block_stop' =
                 next_block_stop(path_blocked(obstacle_filtered), speed)
          /\ hist' = tick_hist(obstacle_distance, stop_distance, speed,
                               path_blocked(obstacle_filtered),
                               AtLineFires(stop_line_detector, stop_filtered),
                               m.drive_instructions)
          /\ UNCHANGED status_code_threshold
          \* calculate_angle and calculate_lateral_position read front()
          \* unconditionally: on an empty list the read is undefined, it
          \* yields some number or ends the process
          /\ \E instr \in FrontNumbers(m.drive_instructions),
                returned \in (IF m.drive_instructions = << >>
                              THEN BOOLEAN ELSE {TRUE}) :
               LET angle == calculate_angle(instr, angle_left, angle_right)
               IN /\ last_angle' = IF returned THEN angle ELSE last_angle
                  /\ call' = [NoCall EXCEPT
                        !.op = "tick",
                        !.speed = speed,
                        !.returned = returned,
                        !.front_of_empty = (m.drive_instructions = << >>),
                        !.obstacle_filtered = obstacle_filtered,
                        !.stop_filtered = stop_filtered,
                        !.control = IF returned
                            THEN [angle |-> angle,
                                  lateral_position |->
                                      calculate_lateral_position(
                                          instr, lateral_left, lateral_right),
                                  speed_ref |-> calculate_speed(m.state),
                                  regulation_mode |-> mode]
                            ELSE NoControl]

\* ControlCenter::add_drive_instruction
AddDriveInstruction(number, id) ==
    /\ Alive
    /\ drive_instructions' =
           add_drive_instruction(Machine, number, id).drive_instructions
    /\ call' = [NoCall EXCEPT !.op = "add"]
    /\ hist' = mission_hist
    /\ UNCHANGED << road_segments, finished_id_buffer, state, stop_reason,
                    finish_when_stopped, obstacle_distance_filter,
                    stop_distance_filter, stop_line_detector,
                    consecutive_0_status_codes, status_code_threshold,
                    last_angle, clean_run, block_stop >>

\* ControlCenter::set_drive_missions; routes are the planner's answers, one
\* per leg
SetDriveMissions(target_list, routes) ==
    /\ Alive
    /\ \E m \in {set_drive_missions(Machine, target_list, routes)} :
          /\ drive_instructions' = m.drive_instructions
          /\ road_segments' = m.road_segments
          /\ finished_id_buffer' = m.finished_id_buffer
    /\ call' = [NoCall EXCEPT !.op = "set", !.target_list = target_list,
                              !.routes = routes,
                              !.failed = solve_fails(target_list, routes)]
    /\ hist' = mission_hist
    /\ UNCHANGED << state, stop_reason, finish_when_stopped,
                    obstacle_distance_filter, stop_distance_filter,
                    stop_line_detector, consecutive_0_status_codes,
                    status_code_threshold, last_angle, clean_run,
                    block_stop >>

\* ControlCenter::get_finished_instruction_id
GetFinishedInstructionId ==
    /\ Alive
    /\ finished_id_buffer' = finished_rest(finished_id_buffer)
    /\ call' = [NoCall EXCEPT !.op = "get",
                              !.id = finished_id(finished_id_buffer)]
    /\ hist' = poll_hist
    /\ UNCHANGED << drive_instructions, road_segments, state, stop_reason,
                    finish_when_stopped, obstacle_distance_filter,
                    stop_distance_filter, stop_line_detector,
                    consecutive_0_status_codes, status_code_threshold,
                    last_angle, clean_run, block_stop >>

----------------------------------------------------------------------------
(* The object after construction *)

InitWith(thresholds, recordings) ==
    /\ drive_instructions = << >>
    /\ road_segments = << >>
    /\ finished_id_buffer = << >>
    /\ state = "stop_line"
    /\ stop_reason = "stop_line"
    /\ finish_when_stopped = FALSE
    /\ obstacle_distance_filter =
           NewDistanceFilter(ObstacleFilterLen, ObstacleFilterSeed)
    /\ stop_distance_filter = NewDistanceFilter(StopFilterLen, StopFilterSeed)
    /\ stop_line_detector = NewStopLineDetector
    /\ consecutive_0_status_codes = 0
    /\ status_code_threshold \in thresholds
    /\ last_angle = 0
    /\ clean_run = 0
    /\ block_stop = "no"
    /\ hist \in {[NoHist EXCEPT !.recording = r] : r \in recordings}
    /\ call = NoCall

Init == InitWith({StatusCodeThreshold}, {FALSE})

\* the same object, with the history kept
InitRecording == InitWith({StatusCodeThreshold}, {TRUE})

----------------------------------------------------------------------------
(* Inputs *)

\* obstacle distance: 0 is "no reading", 10 is an obstacle close by
ObstacleInputs == {0, 10}
\* stop distance: -1 is "no reading", 5 is a line close by
StopInputs == {-1, 5}
SpeedInputs == {-1, 0, 1}

\* the planner's answer to solve(): as many segments as instructions
Route(numbers, segments) ==
    [drive_mission |-> numbers, road_segments |-> segments]

\* the total length of the planner's answers
RECURSIVE RoutesLen(_)
RoutesLen(routes) ==
    IF routes = << >> THEN 0
    ELSE Len(Head(routes).drive_mission) + RoutesLen(Tail(routes))

\* the calls of set_drive_missions that build a plan of at most n
\* instructions: the waypoints, and a planner answer for every leg
MissionCalls(targets, routes, n) ==
    { c \in UNION { {t} \X [1..(Len(t) - 1) -> routes] : t \in targets } :
        Len(c[1]) - 1 + RoutesLen(c[2]) <= n }

----------------------------------------------------------------------------
(* Spec: the state machine under every sensor input, one waypoint name *)

TargetLists == { << "A" >>, << "A", "A" >>, << "A", "A", "A" >> }

Routes == { Route(<< >>, << >>), Route(<< "forward" >>, << "A" >>),
            Route(<< "right" >>, << "A" >>) }

\* the instructions add_drive_instruction is given; "right" comes from the
\* planner
AddInstructions == {"forward", "left", "stop"}

Next ==
    \/ /\ Len(finished_id_buffer) < MaxBuffer
       /\ \E o \in ObstacleInputs, s \in StopInputs, v \in SpeedInputs :
              Tick(o, s, v, 0, 0, 0, 0, 1)
    \/ /\ Len(drive_instructions) < MaxPlan
       /\ \E n \in AddInstructions : AddDriveInstruction(n, "A")
    \/ \E c \in MissionCalls(TargetLists, Routes, MaxPlan) :
           SetDriveMissions(c[1], c[2])
    \/ GetFinishedInstructionId

Spec == Init /\ [][Next]_vars

----------------------------------------------------------------------------
(* SpecPlan: the plan and the completion buffer with two waypoint names;
   the vehicle stands at a stop line on a clear path *)

TargetListsIds == { << "A" >>, << "A", "B" >>, << "B", "A" >>,
                    << "A", "B", "A" >> }

RoutesIds == { Route(<< >>, << >>), Route(<< "forward" >>, << "B" >>),
               Route(<< "left", "right" >>, << "A", "B" >>) }

NextPlan ==
    \/ /\ Len(finished_id_buffer) < MaxBufferIds
       /\ Tick(0, 5, 0, 0, 0, 0, 0, 1)
    \/ /\ Len(drive_instructions) < MaxPlanIds
       /\ \/ AddDriveInstruction("forward", "B")
          \/ AddDriveInstruction("left", "A")
    \/ \E c \in MissionCalls(TargetListsIds, RoutesIds, MaxPlanIds) :
           SetDriveMissions(c[1], c[2])
    \/ GetFinishedInstructionId

SpecPlan == Init /\ [][NextPlan]_vars

----------------------------------------------------------------------------
(* SpecMode: the regulation mode under every threshold and status code; the
   vehicle stands on a clear path away from any line *)

InitMode == InitWith(0..MaxThreshold, {FALSE})

NextMode ==
    \/ /\ Len(finished_id_buffer) < MaxBuffer
       /\ \E status_code \in {0, 1} :
              /\ status_code = 0 => clean_run < MaxClean
              /\ Tick(0, -1, 0, 0, 0, 0, 0, status_code)
    \/ /\ Len(drive_instructions) < MaxPlan
       /\ \E n \in AddInstructions : AddDriveInstruction(n, "A")
    \/ \E c \in MissionCalls(TargetLists, {Route(<< >>, << >>)}, MaxPlan) :
           SetDriveMissions(c[1], c[2])
    \/ GetFinishedInstructionId

SpecMode == InitMode /\ [][NextMode]_vars

----------------------------------------------------------------------------
(* Properties of the tick and of the control state *)

Running == {"normal", "intersection"}

\* C1: every tick returns a control command and no step of it reads the
\* front of an empty instruction queue.
C1_TickNeverReadsEmptyFront ==
    call.op = "tick" => (call.returned /\ ~call.front_of_empty)

\* C2, as claimed: observed after a tick or a mission API call, a non-empty
\* queue in state stop_line has a stop instruction at its front, and the
\* speed given to the tick was 0.  (After a mission API call the history
\* holds no tick speed; the front instruction alone is stated there.)
C2_StopLineMeansStopAndStationary ==
    (/\ call.op \in {"tick", "add", "set"}
     /\ drive_instructions # << >>
     /\ state = "stop_line")
    => /\ Head(drive_instructions).number = "stop"
       /\ call.op = "tick" => call.speed = 0

\* C2, amended: observed after a tick, a non-empty queue in state stop_line
\* means the speed given to that tick was <= 0, and the front instruction is
\* stop unless the tick began in state stopping.
C2_StopLineAfterTick ==
    [][ (/\ call'.op = "tick"
         /\ drive_instructions' # << >>
         /\ state' = "stop_line")
        => /\ call'.speed <= 0
           /\ state # "stopping"
                => Head(drive_instructions').number = "stop" ]_vars

\* C2: a tick that began with a driving instruction ended in stop_line at a
\* stop instruction, with a negative speed
C2_Witness ==
    /\ call.op = "tick"
    /\ call.speed < 0
    /\ state = "stop_line"
    /\ drive_instructions # << >>
    /\ Head(drive_instructions).number = "stop"
    /\ finished_id_buffer # << >>

\* C3: a stop instruction is never finished by a tick that begins in state
\* normal or intersection.
C3_StopNeverFinishedWhileRunning ==
    [][ (/\ call'.op = "tick"
         /\ state \in Running
         /\ drive_instructions # << >>
         /\ Head(drive_instructions).number = "stop")
        => drive_instructions' = drive_instructions ]_vars

\* C4: the road-segment queue is never longer than the drive-instruction
\* queue.
C4_SegmentsNoLongerThanInstructions ==
    Len(road_segments) <= Len(drive_instructions)

\* C4: a tick finished an instruction of a plan whose segments trail its
\* instructions
C4_Witness ==
    /\ call.op = "tick"
    /\ finished_id_buffer # << >>
    /\ road_segments # << >>
    /\ Len(road_segments) < Len(drive_instructions)

\* the first half of C8: a tick that begins in normal or intersection with a
\* non-empty plan and a filtered obstacle distance below the blocked
\* threshold ends in stopping with stop_reason blocked and finishes nothing
BlockedTickStops ==
    (/\ state \in Running
     /\ drive_instructions # << >>
     /\ path_blocked(FilterMean(obstacle_distance_filter')))
    => /\ state' = "stopping"
       /\ stop_reason' = "blocked"
       /\ drive_instructions' = drive_instructions
       /\ road_segments' = road_segments
       /\ finished_id_buffer' = finished_id_buffer

\* the second half of C8: the state stays stopping on a tick with
\* speed # 0 and becomes blocked on a tick with speed = 0
StopEndsBlocked ==
    IF call'.speed # 0 THEN state' = "stopping" ELSE state' = "blocked"

\* C8, as claimed: after such a tick the state stays stopping on every
\* following tick with speed # 0 and becomes blocked on the first tick with
\* speed = 0.
C8_BlockedStopAlways ==
    [][ call'.op = "tick"
        => /\ BlockedTickStops
           /\ block_stop \in {"pending", "lapsed"} => StopEndsBlocked ]_vars

\* C8, amended: the same, as long as the plan is non-empty when each of the
\* following ticks starts.
C8_BlockedStopWhilePlanned ==
    [][ call'.op = "tick"
        => /\ BlockedTickStops
           /\ (block_stop = "pending" /\ drive_instructions # << >>)
                => StopEndsBlocked ]_vars

\* C8: a tick in an intersection found the path blocked while the stop-line
\* detector would have fired
C8_Witness ==
    /\ call.op = "tick"
    /\ block_stop = "pending"
    /\ state = "stopping"
    /\ stop_reason = "blocked"
    /\ Head(drive_instructions).number \in {"left", "right"}
    /\ near_line(FilterMean(stop_distance_filter))
    /\ Len(drive_instructions) > 1

\* C10: the speed_ref a tick returns is DEFAULT_SPEED in normal,
\* INTERSECTION_SPEED in intersection and 0 in stop_line, stopping and
\* blocked, the state being the one update_state left.
C10_SpeedRefByState ==
    (call.op = "tick" /\ call.returned)
    => /\ state = "normal" => call.control.speed_ref = DEFAULT_SPEED
       /\ state = "intersection"
            => call.control.speed_ref = INTERSECTION_SPEED
       /\ state \in {"stop_line", "stopping", "blocked"}
            => call.control.speed_ref = 0

\* C10: ticks returned in states with different speeds
C10_Witness ==
    /\ call.op = "tick"
    /\ call.returned
    /\ state = "stopping"
    /\ call.speed > 0
    /\ call.control.speed_ref = 0

----------------------------------------------------------------------------
(* Properties of the plan and of the completion buffer *)

\* everything but the history of the last call
object == << drive_instructions, road_segments, finished_id_buffer, state,
             stop_reason, finish_when_stopped, obstacle_distance_filter,
             stop_distance_filter, stop_line_detector,
             consecutive_0_status_codes, status_code_threshold, last_angle >>

\* C5: the completion buffer is a FIFO: a tick appends the id of every
\* instruction it pops, one entry each; get_finished_instruction_id returns
\* and removes the oldest id, or returns "" and changes nothing when none is
\* pending; add_drive_instruction and set_drive_missions leave the buffer
\* alone.
C5_CompletionFifo ==
    [][ /\ call'.op = "get"
          => IF finished_id_buffer = << >>
             THEN call'.id = "" /\ object' = object
             ELSE /\ call'.id = Head(finished_id_buffer)
                  /\ finished_id_buffer' = Tail(finished_id_buffer)
        /\ call'.op = "tick"
          => LET n == Len(drive_instructions) - Len(drive_instructions')
             IN /\ n \in {0, 1}
                /\ drive_instructions' =
                       SubSeq(drive_instructions, n + 1,
                              Len(drive_instructions))
                /\ finished_id_buffer' =
                       finished_id_buffer \o
                       [i \in 1..n |-> drive_instructions[i].id]
        /\ call'.op \in {"add", "set"}
          => finished_id_buffer' = finished_id_buffer ]_vars

\* C5: of two different pending ids the older one was returned
C5_Witness ==
    /\ call.op = "get"
    /\ call.id # ""
    /\ finished_id_buffer # << >>
    /\ Head(finished_id_buffer) # call.id

\* C6: set_drive_missions([W0..Wn]) leaves, for every leg i in order, one
\* stop instruction tagged Wi followed by the planner's instructions for the
\* leg in planner order, and nothing else.
C6_MissionSplice ==
    call.op = "set"
    => LET t == call.target_list
           r == call.routes
           off(i) == (i - 1) + RoutesLen(SubSeq(r, 1, i - 1))
       IN /\ Len(drive_instructions) = Len(t) - 1 + RoutesLen(r)
          /\ \A i \in 1..(Len(t) - 1) :
               /\ drive_instructions[off(i) + 1] =
                      drive_instruction_t("stop", t[i])
               /\ \A j \in 1..Len(r[i].drive_mission) :
                      drive_instructions[off(i) + 1 + j].number =
                          r[i].drive_mission[j]

\* C6: a two-leg mission with planner output for both legs replaced a plan
\* the vehicle was driving
C6_Witness ==
    /\ call.op = "set"
    /\ Len(call.target_list) = 3
    /\ \A i \in 1..2 : call.routes[i].drive_mission # << >>
    /\ state \in Running

\* C7: set_drive_missions leaves the completion buffer unchanged and keeps
\* no instruction or segment of the previous plan; a later tick only reports
\* the instruction it pops from the front of the queue.
C7_DiscardIsSilent ==
    [][ /\ call'.op = "set"
          => /\ finished_id_buffer' = finished_id_buffer
             /\ Len(drive_instructions') =
                    Len(call'.target_list) - 1 + RoutesLen(call'.routes)
             /\ Len(road_segments') = Len(drive_instructions')
        /\ (call'.op = "tick" /\ finished_id_buffer' # finished_id_buffer)
          => /\ drive_instructions # << >>
             /\ drive_instructions' = Tail(drive_instructions)
             /\ finished_id_buffer' =
                    Append(finished_id_buffer, Head(drive_instructions).id)
      ]_vars

\* C7: a plan was replaced while the completion of its last instruction was
\* still deferred
C7_Witness ==
    /\ call.op = "set"
    /\ finish_when_stopped
    /\ drive_instructions # << >>
    /\ finished_id_buffer # << >>

----------------------------------------------------------------------------
(* Properties of the regulation mode *)

\* C9: for every threshold T, a tick with a non-zero status code returns
\* auto_critical, and a tick returns auto_nominal exactly when it and the
\* T-1 ticks before it all had status code 0.
C9_NominalAfterCleanRun ==
    (call.op = "tick" /\ call.returned)
    => /\ clean_run = 0 => call.control.regulation_mode = "auto_critical"
       /\ call.control.regulation_mode = "auto_nominal"
            <=> clean_run >= status_code_threshold

----------------------------------------------------------------------------
(* The tick on an empty plan *)

\* C11: a tick that starts with an empty plan ends in stopping with
\* stop_reason stop_line if its speed is above 0 and in stop_line otherwise,
\* whatever the state before and the distances given; it finishes no
\* instruction, and it returns a control command whose speed_ref is 0.
C11_EmptyPlanTick ==
    [][(call'.op = "tick" /\ drive_instructions = << >>) =>
          /\ state' = IF call'.speed > 0 THEN "stopping" ELSE "stop_line"
          /\ call'.speed > 0 => stop_reason' = "stop_line"
          /\ drive_instructions' = << >>
          /\ finished_id_buffer' = finished_id_buffer
          /\ call'.returned
          /\ call'.control.speed_ref = 0]_vars

----------------------------------------------------------------------------
(* SpecFail: SpecPlan with a planner that may fail on a leg *)

\* the calls of set_drive_missions in which the planner answers the first
\* legs and fails on the next one, leaving at most n instructions
FailingMissionCalls(targets, routes, n) ==
    { c \in UNION { UNION { {t} \X [1..k -> routes] :
                              k \in 0..(Len(t) - 2) } : t \in targets } :
        /\ solve_fails(c[1], c[2])
        /\ Len(c[2]) + 1 + RoutesLen(c[2]) <= n }

NextFail ==
    \/ /\ Len(finished_id_buffer) < MaxBufferIds
       /\ Tick(0, 5, 0, 0, 0, 0, 0, 1)
    \/ /\ Len(drive_instructions) < MaxPlanIds
       /\ \/ AddDriveInstruction("forward", "B")
          \/ AddDriveInstruction("left", "A")
    \/ \E c \in MissionCalls(TargetListsIds, RoutesIds, MaxPlanIds) :
           SetDriveMissions(c[1], c[2])
    \/ \E c \in FailingMissionCalls(TargetListsIds, RoutesIds, MaxPlanIds) :
           SetDriveMissions(c[1], c[2])
    \/ GetFinishedInstructionId

SpecFail == Init /\ [][NextFail]_vars

\* C12: when the planner fails on a leg of set_drive_missions, the caller is
\* told, and the plan holds, for every leg before the failing one and in
\* order, the stop tagged with the leg's start and the planner's
\* instructions with their segments; the two queues hold one segment per
\* instruction.
C12_FailureKeepsSplicedLegs ==
    (call.op = "set" /\ solve_fails(call.target_list, call.routes))
    => LET t == call.target_list
           r == call.routes
           off(i) == (i - 1) + RoutesLen(SubSeq(r, 1, i - 1))
       IN /\ call.failed
          /\ Len(drive_instructions) >= off(Len(r) + 1)
          /\ Len(road_segments) = Len(drive_instructions)
          /\ \A i \in 1..Len(r) :
               /\ drive_instructions[off(i) + 1] =
                      drive_instruction_t("stop", t[i])
               /\ road_segments[off(i) + 1] = t[i]
               /\ \A j \in 1..Len(r[i].drive_mission) :
                    /\ drive_instructions[off(i) + 1 + j] =
                           drive_instruction_t(r[i].drive_mission[j],
                                               r[i].road_segments[j])
                    /\ road_segments[off(i) + 1 + j] = r[i].road_segments[j]

\* C12: the planner failed on the second leg of a mission whose first leg
\* it answered with instructions, while the vehicle was driving
C12_Witness ==
    /\ call.op = "set"
    /\ call.failed
    /\ Len(call.routes) = 1
    /\ call.routes[1].drive_mission # << >>
    /\ Len(drive_instructions) > 1 + Len(call.routes[1].drive_mission)
    /\ state \in Running

----------------------------------------------------------------------------
(* SpecFilter: the two distance filters with windows of every length up to
   MaxWindow; the vehicle stands still *)

MaxWindow == 3

\* obstacle distance: 0 is "no reading", -7 a reading below zero
FilterObstacleInputs == {0, -7}
\* stop distance: -1 is "no reading", -3 a reading below zero
FilterStopInputs == {-1, -3}

InitFilter ==
    /\ drive_instructions = << >>
    /\ road_segments = << >>
    /\ finished_id_buffer = << >>
    /\ state = "stop_line"
    /\ stop_reason = "stop_line"
    /\ finish_when_stopped = FALSE
    /\ \E n \in 1..MaxWindow :
          /\ obstacle_distance_filter =
                 NewDistanceFilter(n, ObstacleFilterSeed)
          /\ stop_distance_filter = NewDistanceFilter(n, StopFilterSeed)
    /\ stop_line_detector = NewStopLineDetector
    /\ consecutive_0_status_codes = 0
    /\ status_code_threshold = StatusCodeThreshold
    /\ last_angle = 0
    /\ clean_run = 0
    /\ block_stop = "no"
    /\ hist = [NoHist EXCEPT !.recording = TRUE]
    /\ call = NoCall

NextFilter ==
    \/ /\ Len(finished_id_buffer) < MaxBuffer
       /\ \E o \in FilterObstacleInputs, s \in FilterStopInputs :
              Tick(o, s, 0, 0, 0, 0, 0, 1)
    \/ /\ drive_instructions = << >>
       /\ AddDriveInstruction("forward", "A")
    \/ GetFinishedInstructionId

SpecFilter == InitFilter /\ [][NextFilter]_vars

\* v is the mean of the window, truncated toward zero
TruncatedMean(v, window) ==
    LET n == Len(window)
        sum == SumSeq(window)
    IN IF sum >= 0 THEN n * v <= sum /\ sum < n * v + n
       ELSE n * v >= sum /\ sum > n * v - n

\* C13: a filter with a window of N samples, seeded with N copies of a
\* value, returns the truncated mean of its last N observations; once the
\* same x has been given N times in a row it returns x, whatever the seed.
C13_FilterReturnsWindowMean ==
    call.op = "tick"
    => /\ TruncatedMean(call.obstacle_filtered, obstacle_distance_filter)
       /\ TruncatedMean(call.stop_filtered, stop_distance_filter)
       /\ hist.obstacle_run.n = Len(obstacle_distance_filter)
          => call.obstacle_filtered = hist.obstacle_run.x
       /\ hist.stop_run.n = Len(stop_distance_filter)
          => call.stop_filtered = hist.stop_run.x

\* C13: the longest window returned the reading it was given as many times
\* in a row as it is long, while the other filter averaged different
\* readings
C13_Witness ==
    /\ call.op = "tick"
    /\ Len(obstacle_distance_filter) = MaxWindow
    /\ hist.obstacle_run = [x |-> -7, n |-> MaxWindow]
    /\ call.obstacle_filtered = -7
    /\ hist.stop_run.n < MaxWindow
    /\ call.stop_filtered # hist.stop_run.x

----------------------------------------------------------------------------
(* SpecDefer: the deferred completion of the last instruction, with the
   history kept; speeds are 0 or above *)

DeferSpeedInputs == {0, 1}

DeferInstructions == {"forward", "stop"}

NextDefer ==
    \/ /\ Len(finished_id_buffer) < MaxBuffer
       /\ \E o \in ObstacleInputs, s \in StopInputs, v \in DeferSpeedInputs :
              Tick(o, s, v, 0, 0, 0, 0, 1)
    \/ /\ Len(drive_instructions) < MaxPlan
       /\ \E n \in DeferInstructions : AddDriveInstruction(n, "A")
    \/ \E c \in MissionCalls(TargetLists, Routes, MaxPlan) :
           SetDriveMissions(c[1], c[2])
    \/ GetFinishedInstructionId

SpecDefer == InitRecording /\ [][NextDefer]_vars

\* C14: a tick that begins in normal or intersection with one instruction in
\* the plan, a clear path and the detector firing finishes nothing and ends
\* in stopping with stop_reason stop_line. With no mission API call since,
\* every following tick with speed # 0 finishes nothing, and the first one
\* with speed = 0 finishes that instruction, once, ending in stop_line with
\* an empty plan and finish_when_stopped cleared.
C14_DeferredCompletion ==
    [][call'.op = "tick" =>
         /\ (/\ state \in Running
             /\ Len(drive_instructions) = 1
             /\ ~path_blocked(call'.obstacle_filtered)
             /\ AtLineFires(stop_line_detector, call'.stop_filtered))
            => /\ drive_instructions' = drive_instructions
               /\ finished_id_buffer' = finished_id_buffer
               /\ state' = "stopping"
               /\ stop_reason' = "stop_line"
         /\ (hist.armed_for # NoInstruction /\ hist.untouched)
            => /\ drive_instructions = << hist.armed_for >>
               /\ IF call'.speed # 0
                  THEN /\ drive_instructions' = drive_instructions
                       /\ finished_id_buffer' = finished_id_buffer
                       /\ state' = "stopping"
                  ELSE /\ drive_instructions' = << >>
                       /\ finished_id_buffer' =
                              Append(finished_id_buffer, hist.armed_for.id)
                       /\ state' = "stop_line"
                       /\ ~finish_when_stopped']_vars

\* C14: the last instruction was finished by the first tick with speed = 0
\* after the detector had fired
C14_Witness ==
    /\ call.op = "tick"
    /\ hist.deferred
    /\ call.speed = 0
    /\ drive_instructions = << >>
    /\ finished_id_buffer # << >>
    /\ state = "stop_line"

\* C18: the instruction a tick finishes through the deferred path (state
\* stopping, finish_when_stopped set, speed = 0) is the instruction that was
\* at the front of the plan when finish_when_stopped was armed, whatever
\* mission API calls were made in between.
C18_DeferredFinishesArmedInstruction ==
    [][(/\ call'.op = "tick"
        /\ call'.speed = 0
        /\ state = "stopping"
        /\ finish_when_stopped
        /\ drive_instructions # << >>)
       => /\ Head(drive_instructions) = hist.armed_for
          /\ finished_id_buffer' =
                 Append(finished_id_buffer, hist.armed_for.id)]_vars

----------------------------------------------------------------------------
(* Segments and instructions *)

\* C15: whenever the segment queue is non-empty its front is the id of the
\* front instruction, and get_current_road_segment returns it;
\* get_current_road_segment returns "end" exactly when the segment queue is
\* empty.
C15_SegmentsInLockstep ==
    /\ road_segments # << >>
       => /\ drive_instructions # << >>
          /\ Head(road_segments) = Head(drive_instructions).id
          /\ get_current_road_segment = Head(drive_instructions).id
    /\ get_current_road_segment = "end" <=> road_segments = << >>

\* C15: ticks have finished the first instructions of a mission that
\* add_drive_instruction extended, and the vehicle is on segment B
C15_Witness ==
    /\ call.op = "tick"
    /\ finished_id_buffer # << >>
    /\ get_current_road_segment = "B"
    /\ Len(drive_instructions) > Len(road_segments)

----------------------------------------------------------------------------
(* Obstacles and the front instruction *)

\* C16: a tick whose filtered obstacle distance is below the blocked
\* threshold returns a speed_ref of 0, whatever the state before, the plan,
\* the speed and the stop distance.
C16_BlockedTickCommandsZero ==
    (/\ call.op = "tick"
     /\ call.returned
     /\ path_blocked(call.obstacle_filtered))
    => call.control.speed_ref = 0

\* C16: a tick met an obstacle in state stop_line with a forward
\* instruction at the front, and stayed at speed_ref 0 in state blocked
C16_Witness ==
    /\ call.op = "tick"
    /\ call.returned
    /\ path_blocked(call.obstacle_filtered)
    /\ state = "blocked"
    /\ drive_instructions # << >>
    /\ Head(drive_instructions).number = "forward"
    /\ call.control.speed_ref = 0

\* C17: after every tick, state normal comes with a non-empty plan whose
\* front instruction is forward, and state intersection with a front
\* instruction left or right, whatever mission API calls were made between
\* the ticks.
C17_StateAgreesWithFront ==
    call.op = "tick"
    => /\ state = "normal"
          => /\ drive_instructions # << >>
             /\ Head(drive_instructions).number = "forward"
       /\ state = "intersection"
          => /\ drive_instructions # << >>
             /\ Head(drive_instructions).number \in {"left", "right"}

----------------------------------------------------------------------------
(* SpecLine: SpecPlan with the history kept; the vehicle stands at a stop
   line, so the detector is asked about a near line on every tick *)

SpecLine == InitRecording /\ [][NextPlan]_vars

\* C19: when a tick that began in normal or intersection has finished a
\* forward, left or right instruction, the tick that follows it at once
\* does not finish another forward, left or right instruction.
C19_OneLineOneInstruction ==
    [][(hist.line_finish /\ call'.op = "tick")
       => ~(/\ drive_instructions # << >>
            /\ Head(drive_instructions).number # "stop"
            /\ drive_instructions' # drive_instructions)]_vars

----------------------------------------------------------------------------
(* SpecLive: Spec with speeds of 0 or above and a fair environment: the
   detector fires again and again while the vehicle drives, the speed reads
   0 again and again while speed_ref is 0, the obstacle clears again and
   again while the vehicle waits, and the caller keeps polling *)

NextLive ==
    \/ /\ Len(finished_id_buffer) < MaxBuffer
       /\ \E o \in ObstacleInputs, s \in StopInputs, v \in DeferSpeedInputs :
              Tick(o, s, v, 0, 0, 0, 0, 1)
    \/ /\ Len(drive_instructions) < MaxPlan
       /\ \E n \in AddInstructions : AddDriveInstruction(n, "A")
    \/ \E c \in MissionCalls(TargetLists, Routes, MaxPlan) :
           SetDriveMissions(c[1], c[2])
    \/ GetFinishedInstructionId

\* a tick on a clear path at a line, while the state is s (normal or
\* intersection)
LineTick(s) ==
    /\ Len(finished_id_buffer) < MaxBuffer
    /\ state = s
    /\ \E v \in DeferSpeedInputs : Tick(0, 5, v, 0, 0, 0, 0, 1)

\* a tick that reads speed 0 while the speed_ref of the state is 0
StandTick ==
    /\ Len(finished_id_buffer) < MaxBuffer
    /\ calculate_speed(state) = 0
    /\ \E o \in ObstacleInputs, s \in StopInputs :
           Tick(o, s, 0, 0, 0, 0, 0, 1)

\* a tick on a clear path while the vehicle waits in w (stop_line or
\* blocked)
ClearTick(w) ==
    /\ Len(finished_id_buffer) < MaxBuffer
    /\ state = w
    /\ \E s \in StopInputs, v \in DeferSpeedInputs :
           Tick(0, s, v, 0, 0, 0, 0, 1)

SpecLive ==
    /\ Init
    /\ [][NextLive]_vars
    /\ SF_vars(LineTick("normal"))
    /\ SF_vars(LineTick("intersection"))
    /\ SF_vars(StandTick)
    /\ SF_vars(ClearTick("stop_line"))
    /\ SF_vars(ClearTick("blocked"))
    /\ WF_vars(GetFinishedInstructionId)

\* a mission API call
MissionCall == call'.op \in {"add", "set"}

\* C20: if mission API calls cease, then from every non-empty plan the
\* plan becomes empty with the state in stop_line: every instruction is
\* finished, and the machine does not stay in stopping or blocked.
C20_PlanCompletes ==
    \/ []<><<MissionCall>>_vars
    \/ [](drive_instructions # << >>
          => <>(drive_instructions = << >> /\ state = "stop_line"))

====
